---- MODULE Spec2Model ----
(***************************************************************************)
(* Bleichenbacher's adaptive chosen-ciphertext attack on RSA PKCS #1 v1.5  *)
(* (attacks/rsa/bleichenbacher.py), as a state machine that takes one      *)
(* oracle query, one narrowing or one loop decision per step.              *)
(***************************************************************************)
EXTENDS Integers, Sequences, FiniteSets, TLC

VARIABLES
    n,        \* the modulus
    e,        \* the public exponent
    d,        \* the private exponent, known only to the padding oracle
    c,        \* the target ciphertext
    m0,       \* the plaintext of c (ghost: the attack never reads it)
    B,        \* attack: B = 2 ** (8 * (k - 2))
    s0,       \* _step_1: blinding value
    c0,       \* _step_1: blinded ciphertext
    M,        \* attack: list of intervals <<a, b>>
    s,        \* attack: current multiplier / last witness
    r,        \* _step_2c: r
    it,       \* _step_2c: next value of range(left, right + 1)
    m,        \* attack: returned plaintext
    pc,       \* position of the run
    queries,  \* number of padding_oracle calls made so far
    draws,    \* number of secrets.SystemRandom().randrange calls made so far
    Mprev,    \* ghost: the argument M of the last _step_3 call
    phase,    \* ghost: the search step that runs or ran last: "2a", "2b", "2c"
    sPrev,    \* ghost: the witness s that search step was given (0 for step 2a)
    asked,    \* ghost: the multipliers that search step has queried, in order
    raised,   \* the padding oracle has raised an exception
    iM,       \* interval-list harness: the list
    iPrev,    \* interval-list harness: the list before the last _insert
    iArg,     \* interval-list harness: the (a, b) of the last _insert
    iCount    \* interval-list harness: number of _insert calls made

ghostVars == <<phase, sPrev, asked>>
attackVars == <<n, e, d, c, m0, B, s0, c0, M, s, r, it, m, pc, queries, draws, Mprev,
                phase, sPrev, asked, raised>>
insertVars == <<iM, iPrev, iArg, iCount>>
vars == <<n, e, d, c, m0, B, s0, c0, M, s, r, it, m, pc, queries, draws, Mprev,
          phase, sPrev, asked, raised, iM, iPrev, iArg, iCount>>

(***************************************************************************)
(* Bounds of the model.                                                    *)
(***************************************************************************)
\* number of PKCS-conforming plaintexts tried per key
NumPlain == 64
\* number of non-conforming plaintexts tried per key (these need blinding)
NumBlindPlain == 2
\* cap on the number of random draws of s0 in one run
MaxDraws == 2
\* interval-list harness: interval ends range over 0..MaxVal
MaxVal == 3
\* interval-list harness: number of _insert calls per run
MaxInserts == 3

(***************************************************************************)
(* Integer helpers.                                                        *)
(***************************************************************************)
min(x, y) == IF x <= y THEN x ELSE y

max(x, y) == IF x >= y THEN x ELSE y

\* shared.floor(a, b): exact floor of a / b
floor(a, b) == a \div b

\* shared.ceil(a, b): exact ceiling of a / b
ceil(a, b) == (a \div b) + (IF a % b > 0 THEN 1 ELSE 0)

\* (x * y) % md for 0 <= x, y < md < 2^17, computed in two halves so that no
\* intermediate product leaves the 32-bit range of TLC's integers
MulMod(x, y, md) == (((x * (y \div 512)) % md) * 512 + x * (y % 512)) % md

\* the element of a one-element set; "Only({F(v) : v \in {X}})" is F(X) with
\* X computed a single time, however often F uses it
Only(S) == CHOOSE v \in S : TRUE

RECURSIVE PowMod(_, _, _)
\* pow(b, x, md) for x >= 0: square and multiply
PowMod(b, x, md) ==
    IF x = 0 THEN 1 % md
    ELSE Only({IF x % 2 = 1 THEN MulMod(MulMod(h, h, md), b % md, md)
                            ELSE MulMod(h, h, md)
               : h \in {PowMod(b, x \div 2, md)}})

RECURSIVE Gcd(_, _)
\* math.gcd: Euclid
Gcd(x, y) == IF y = 0 THEN x ELSE Only({Gcd(u, v) : u \in {y}, v \in {x % y}})

RECURSIVE Egcd(_, _)
\* <<g, u, v>> with g = gcd(x, y) = u * x + v * y  (extended Euclid)
Egcd(x, y) ==
    IF y = 0 THEN <<x, 1, 0>>
    ELSE Only({<<t[1], t[3], t[2] - (x \div y) * t[3]>>
               : t \in {Only({Egcd(u, v) : u \in {y}, v \in {x % y}})}})

\* pow(x, -1, md) when gcd(x, md) = 1
ModInverse(x, md) == Egcd(x % md, md)[2] % md

\* pow(x, -1, md) taken to return a value for every x
pow_inverse_unchecked(x, md) == TRUE

\* pow(x, -1, md) returns a value; it raises ValueError when x has no inverse
pow_inverse_defined(x, md) == Gcd(x, md) = 1

(***************************************************************************)
(* The inputs of a run: a key, a plaintext, the values the random source   *)
(* may hand out.                                                           *)
(***************************************************************************)
\* <<p, q, e>> with e invertible modulo (p - 1) * (q - 1); n = p * q has 17
\* bits, so k = 3 and B = 256
Keys == {<<257, 311, 3>>, <<263, 269, 5>>, <<277, 283, 7>>}

\* n.bit_length()
RECURSIVE bit_length(_)
bit_length(x) == IF x = 0 THEN 0 ELSE 1 + bit_length(x \div 2)

\* B = 2 ** (8 * (k - 2)) with k = ceil(n.bit_length(), 8)
BOf(nn) == 2 ^ (8 * (ceil(bit_length(nn), 8) - 2))

\* NumPlain plaintexts spread over [2B, 3B - 1]
ConformingPlain(BB) == {2 * BB + ((59 * i) % BB) : i \in 0..(NumPlain - 1)}

\* plaintexts outside [2B, 3B - 1]: _step_1 has to blind them
BlindPlain == 2..(1 + NumBlindPlain)

\* the values secrets.SystemRandom().randrange(2, n) returns in the model
BlindDraws == {100, 200, 257, 263, 300, 40264}

(***************************************************************************)
(* The padding oracle: true exactly when the decryption of x lies in       *)
(* [2B, 3B - 1].                                                           *)
(***************************************************************************)
Conforming(x) == 2 * B <= x /\ x <= 3 * B - 1

padding_oracle(x) == Conforming(PowMod(x, d, n))

(***************************************************************************)
(* The interval list.                                                      *)
(***************************************************************************)
\* Matches with strict comparisons: intervals that share only an end point
\* are not taken to overlap
Matches_strict(L, a, b) == {i \in 1..Len(L) : L[i][1] < b /\ a < L[i][2]}

\* the indices of the stored intervals that the new interval (a, b) overlaps
Matches(L, a, b) == {i \in 1..Len(L) : L[i][1] <= b /\ a <= L[i][2]}

\* _insert without its final append: an interval that overlaps nothing is lost
_insert_noappend(L, a, b) ==
    IF Matches(L, a, b) = {}
    THEN L
    ELSE LET i == CHOOSE j \in Matches(L, a, b) : \A k \in Matches(L, a, b) : j <= k
         IN  [L EXCEPT ![i] = <<min(a, L[i][1]), max(b, L[i][2])>>]

\* _insert that merges into the last stored interval it overlaps
_insert_last_match(L, a, b) ==
    IF Matches(L, a, b) = {}
    THEN Append(L, <<a, b>>)
    ELSE LET i == CHOOSE j \in Matches(L, a, b) : \A k \in Matches(L, a, b) : j >= k
         IN  [L EXCEPT ![i] = <<min(a, L[i][1]), max(b, L[i][2])>>]

\* _insert(M, a, b): merge into the first stored interval it overlaps, else append
_insert(L, a, b) ==
    IF Matches(L, a, b) = {}
    THEN Append(L, <<a, b>>)
    ELSE LET i == CHOOSE j \in Matches(L, a, b) : \A k \in Matches(L, a, b) : j <= k
         IN  [L EXCEPT ![i] = <<min(a, L[i][1]), max(b, L[i][2])>>]

RECURSIVE step_3_r_noclamp(_, _, _, _, _, _, _)
\* step_3_r with a_ and b_ not clamped to the interval (a, b) it narrows
step_3_r_noclamp(nn, BB, ss, a, b, rr, M_) ==
    IF rr > floor(b * ss - 2 * BB, nn) THEN M_
    ELSE LET a_ == ceil(2 * BB + rr * nn, ss)
             b_ == floor(3 * BB - 1 + rr * nn, ss)
         IN  Only({step_3_r_noclamp(nn, BB, ss, a, b, rr + 1, acc)
                   : acc \in {_insert(M_, a_, b_)}})

RECURSIVE step_3_r_one_more(_, _, _, _, _, _, _)
\* step_3_r with r running one past right: range(left, right + 2)
step_3_r_one_more(nn, BB, ss, a, b, rr, M_) ==
    IF rr > floor(b * ss - 2 * BB, nn) + 1 THEN M_
    ELSE LET a_ == max(a, ceil(2 * BB + rr * nn, ss))
             b_ == min(b, floor(3 * BB - 1 + rr * nn, ss))
         IN  Only({step_3_r_one_more(nn, BB, ss, a, b, rr + 1, acc)
                   : acc \in {_insert(M_, a_, b_)}})

RECURSIVE step_3_r_open_right(_, _, _, _, _, _, _)
\* step_3_r with the upper end floor(3 * B - 1 + r * n, s) taken as exclusive
step_3_r_open_right(nn, BB, ss, a, b, rr, M_) ==
    IF rr > floor(b * ss - 2 * BB, nn) THEN M_
    ELSE LET a_ == max(a, ceil(2 * BB + rr * nn, ss))
             b_ == min(b, floor(3 * BB - 1 + rr * nn, ss) - 1)
         IN  Only({step_3_r_open_right(nn, BB, ss, a, b, rr + 1, acc)
                   : acc \in {_insert(M_, a_, b_)}})

RECURSIVE step_3_r(_, _, _, _, _, _, _)
\* the loop "for r in range(left, right + 1)" of _step_3, from rr on
step_3_r(nn, BB, ss, a, b, rr, M_) ==
    IF rr > floor(b * ss - 2 * BB, nn) THEN M_
    ELSE LET a_ == max(a, ceil(2 * BB + rr * nn, ss))
             b_ == min(b, floor(3 * BB - 1 + rr * nn, ss))
         IN  Only({step_3_r(nn, BB, ss, a, b, rr + 1, acc)
                   : acc \in {_insert(M_, a_, b_)}})

RECURSIVE step_3_M(_, _, _, _, _, _)
\* the loop "for (a, b) in M" of _step_3, from index i on
step_3_M(nn, BB, ss, L, i, M_) ==
    IF i > Len(L) THEN M_
    ELSE LET a == L[i][1]
             b == L[i][2]
             left == ceil(a * ss - 3 * BB + 1, nn)
         IN  Only({step_3_M(nn, BB, ss, L, i + 1, acc)
                   : acc \in {step_3_r(nn, BB, ss, a, b, left, M_)}})

\* _step_3 that adds the narrowed intervals to M instead of starting from []
_step_3_extend(nn, BB, ss, L) == L \o step_3_M(nn, BB, ss, L, 1, <<>>)

\* _step_3(n, B, s, M)
_step_3(nn, BB, ss, L) == step_3_M(nn, BB, ss, L, 1, <<>>)

\* the integers an interval list covers
Cover(L) == UNION {L[i][1]..L[i][2] : i \in 1..Len(L)}

(***************************************************************************)
(* The attack.                                                             *)
(***************************************************************************)
\* the query (c0 * pow(s, e, n)) % n of steps 2a, 2b and 2c
Query(x) == MulMod(c0, PowMod(x % n, e, n), n)

\* _step_2c: left and right for the value rr of r
left_2c(rr) == ceil(2 * B + rr * n, M[1][2])

\* _step_2c with "range(left, right)": the last candidate of a range left out
right_2c_exclusive(rr) == floor(3 * B + rr * n, M[1][1]) - 1

right_2c(rr) == floor(3 * B + rr * n, M[1][1])

\* the terminal test taken as "b - a <= 1"
Collapsed_within_one(L) == L[1][2] - L[1][1] <= 1

\* the test "a == b" on the single interval (a, b) = M[0]
Collapsed(L) == L[1][1] = L[1][2]

\* the unblinding multiplies by s0 instead of its inverse
Unblind_no_inverse(a) == MulMod(a, s0 % n, n)

\* the unblinding is left out
Unblind_skipped(a) == a % n

\* m = (a * pow(s0, -1, n)) % n
Unblind(a) == MulMod(a, ModInverse(s0, n), n)

\* _step_2c with r = ceil(b * s - 2 * B, n): the factor 2 left out
r_2c_not_doubled(ss) == ceil(M[1][2] * ss - 2 * B, n)

\* _step_2c: r = ceil(2 * (b * s - 2 * B), n) for the previous witness ss
r_2c(ss) == ceil(2 * (M[1][2] * ss - 2 * B), n)

InitAttack ==
    /\ \E key \in Keys :
       \E pt \in ConformingPlain(BOf(key[1] * key[2])) \cup BlindPlain :
          /\ n = key[1] * key[2]
          /\ e = key[3]
          /\ d = ModInverse(key[3], (key[1] - 1) * (key[2] - 1))
          /\ m0 = pt
          /\ c = PowMod(pt, key[3], key[1] * key[2])
          /\ B = BOf(key[1] * key[2])
    /\ s0 = 1
    /\ c0 = c
    /\ M = <<>>
    /\ s = 0
    /\ r = 0
    /\ it = 0
    /\ m = -1
    /\ pc = "step_1"
    /\ queries = 0
    /\ draws = 0
    /\ Mprev = <<>>
    /\ phase = "none"
    /\ sPrev = 0
    /\ asked = <<>>
    /\ raised = FALSE

InsertIdle ==
    /\ iM = <<>>
    /\ iPrev = <<>>
    /\ iArg = <<0, 0>>
    /\ iCount = 0

Init == InitAttack /\ InsertIdle

\* _step_1 as a do-while: it draws s0 before it tests the oracle on c0
Step1_draw_first ==
    /\ pc = "step_1"
    /\ queries' = queries + 1
    /\ IF draws > 0 /\ padding_oracle(c0)
       THEN /\ pc' = "step_2a"
            /\ M' = << <<2 * B, 3 * B - 1>> >>
            /\ s' = ceil(n, 3 * B)
            /\ phase' = "2a"
            /\ UNCHANGED <<s0, c0, draws>>
       ELSE /\ draws < MaxDraws
            /\ \E x \in BlindDraws :
                  /\ s0' = x
                  /\ c0' = MulMod(c, PowMod(x, e, n), n)
            /\ draws' = draws + 1
            /\ UNCHANGED <<pc, M, s, phase>>
    /\ UNCHANGED <<n, e, d, c, m0, B, r, it, m, Mprev, sPrev, asked, raised>>
    /\ UNCHANGED insertVars

\* _step_1: one test of "while not padding_oracle(c0)" and, when it fails, one draw
Step1 ==
    /\ pc = "step_1"
    /\ queries' = queries + 1
    /\ IF padding_oracle(c0)
       THEN /\ pc' = "step_2a"
            /\ M' = << <<2 * B, 3 * B - 1>> >>
            /\ s' = ceil(n, 3 * B)
            /\ phase' = "2a"
            /\ UNCHANGED <<s0, c0, draws>>
       ELSE /\ draws < MaxDraws
            /\ \E x \in BlindDraws :
                  /\ s0' = x
                  /\ c0' = MulMod(c, PowMod(x, e, n), n)
            /\ draws' = draws + 1
            /\ UNCHANGED <<pc, M, s, phase>>
    /\ UNCHANGED <<n, e, d, c, m0, B, r, it, m, Mprev, sPrev, asked, raised>>
    /\ UNCHANGED insertVars

\* _step_2a with "s += 2" in the loop body
Step2a_stride_two ==
    /\ pc = "step_2a"
    /\ queries' = queries + 1
    /\ asked' = Append(asked, s)
    /\ IF padding_oracle(Query(s))
       THEN pc' = "step_3" /\ s' = s
       ELSE pc' = pc /\ s' = s + 2
    /\ UNCHANGED <<n, e, d, c, m0, B, s0, c0, M, r, it, m, draws, Mprev>>
    /\ UNCHANGED <<phase, sPrev, raised>>
    /\ UNCHANGED insertVars

\* _step_2a: one test of "while not padding_oracle((c0 * pow(s, e, n)) % n)"
Step2a ==
    /\ pc = "step_2a"
    /\ queries' = queries + 1
    /\ asked' = Append(asked, s)
    /\ IF padding_oracle(Query(s))
       THEN pc' = "step_3" /\ s' = s
       ELSE pc' = pc /\ s' = s + 1
    /\ UNCHANGED <<n, e, d, c, m0, B, s0, c0, M, r, it, m, draws, Mprev>>
    /\ UNCHANGED <<phase, sPrev, raised>>
    /\ UNCHANGED insertVars

\* _step_2b: one test of its while loop (the "s += 1" before it is in Loop)
Step2b ==
    /\ pc = "step_2b"
    /\ queries' = queries + 1
    /\ asked' = Append(asked, s)
    /\ IF padding_oracle(Query(s))
       THEN pc' = "step_3" /\ s' = s
       ELSE pc' = pc /\ s' = s + 1
    /\ UNCHANGED <<n, e, d, c, m0, B, s0, c0, M, r, it, m, draws, Mprev>>
    /\ UNCHANGED <<phase, sPrev, raised>>
    /\ UNCHANGED insertVars

\* _step_2c: one iteration of "for s in range(left, right + 1)"
Step2cQuery ==
    /\ pc = "step_2c"
    /\ it <= right_2c(r)
    /\ queries' = queries + 1
    /\ s' = it
    /\ asked' = Append(asked, it)
    /\ IF padding_oracle(Query(it))
       THEN pc' = "step_3" /\ it' = it
       ELSE pc' = pc /\ it' = it + 1
    /\ UNCHANGED <<n, e, d, c, m0, B, s0, c0, M, r, m, draws, Mprev>>
    /\ UNCHANGED <<phase, sPrev, raised>>
    /\ UNCHANGED insertVars

\* _step_2c: the range for r is exhausted (or empty): "r += 1" and the next range
Step2cNextR ==
    /\ pc = "step_2c"
    /\ it > right_2c(r)
    /\ r' = r + 1
    /\ it' = left_2c(r + 1)
    /\ UNCHANGED <<n, e, d, c, m0, B, s0, c0, M, s, m, pc, queries, draws, Mprev>>
    /\ UNCHANGED <<phase, sPrev, asked, raised>>
    /\ UNCHANGED insertVars

\* a call padding_oracle(...) of _step_1, _step_2a, _step_2b or _step_2c raises
\* and the exception is handled as a rejection (no such handler in the source)
OracleRaise_swallowed ==
    /\ \/ pc \in {"step_1", "step_2a", "step_2b"}
       \/ pc = "step_2c" /\ it <= right_2c(r)
    /\ raised = FALSE
    /\ raised' = TRUE
    /\ queries' = queries + 1
    /\ UNCHANGED <<n, e, d, c, m0, B, s0, c0, M, s, r, it, m, pc, draws, Mprev>>
    /\ UNCHANGED ghostVars
    /\ UNCHANGED insertVars

\* a call padding_oracle(...) of _step_1, _step_2a, _step_2b or _step_2c raises:
\* no step and no caller has a try/except, so the exception leaves attack()
OracleRaise ==
    /\ \/ pc \in {"step_1", "step_2a", "step_2b"}
       \/ pc = "step_2c" /\ it <= right_2c(r)
    /\ raised = FALSE
    /\ raised' = TRUE
    /\ queries' = queries + 1
    /\ pc' = "oracle_error"
    /\ UNCHANGED <<n, e, d, c, m0, B, s0, c0, M, s, r, it, m, draws, Mprev>>
    /\ UNCHANGED ghostVars
    /\ UNCHANGED insertVars

\* M = _step_3(n, B, s, M)
Step3 ==
    /\ pc = "step_3"
    /\ M' = _step_3(n, B, s, M)
    /\ Mprev' = M
    /\ pc' = "loop"
    /\ UNCHANGED <<n, e, d, c, m0, B, s0, c0, s, r, it, m, queries, draws>>
    /\ UNCHANGED <<phase, sPrev, asked, raised>>
    /\ UNCHANGED insertVars

\* the top of "while True" in attack, up to the call of _step_2b or _step_2c
Loop ==
    /\ pc = "loop"
    /\ IF Len(M) > 1
       THEN /\ s' = s + 1
            /\ pc' = "step_2b"
            /\ phase' = "2b" /\ sPrev' = s /\ asked' = <<>>
            /\ UNCHANGED <<r, it, m>>
       ELSE IF Len(M) = 0
       THEN /\ pc' = "error"
            /\ UNCHANGED <<s, r, it, m, phase, sPrev, asked>>
       ELSE IF Collapsed(M)
       THEN IF pow_inverse_defined(s0, n)
            THEN /\ m' = Unblind(M[1][1])
                 /\ pc' = "done"
                 /\ UNCHANGED <<s, r, it, phase, sPrev, asked>>
            ELSE /\ pc' = "error"
                 /\ UNCHANGED <<s, r, it, m, phase, sPrev, asked>>
       ELSE /\ r' = r_2c(s)
            /\ it' = left_2c(r_2c(s))
            /\ pc' = "step_2c"
            /\ phase' = "2c" /\ sPrev' = s /\ asked' = <<>>
            /\ UNCHANGED <<s, m>>
    /\ UNCHANGED <<n, e, d, c, m0, B, s0, c0, M, queries, draws, Mprev, raised>>
    /\ UNCHANGED insertVars

(***************************************************************************)
(* The interval list on its own: _insert applied to lists of small         *)
(* intervals, MaxInserts times from the empty list.                        *)
(***************************************************************************)
AttackIdle ==
    /\ n = 0 /\ e = 0 /\ d = 0 /\ c = 0 /\ m0 = 0 /\ B = 0
    /\ s0 = 1 /\ c0 = 0 /\ M = <<>> /\ s = 0 /\ r = 0 /\ it = 0 /\ m = -1
    /\ pc = "idle" /\ queries = 0 /\ draws = 0 /\ Mprev = <<>>
    /\ phase = "none" /\ sPrev = 0 /\ asked = <<>> /\ raised = FALSE

InitInsert == AttackIdle /\ InsertIdle

\* one call _insert(iM, a, b)
Insert ==
    /\ iCount < MaxInserts
    /\ \E a \in 0..MaxVal, b \in 0..MaxVal :
          /\ iArg' = <<a, b>>
          /\ iM' = _insert(iM, a, b)
    /\ iPrev' = iM
    /\ iCount' = iCount + 1
    /\ UNCHANGED attackVars

NextInsert == Insert

InsertSpec == InitInsert /\ [][NextInsert]_vars

Next ==
    \/ Step1
    \/ Step2a
    \/ Step2b
    \/ Step2cQuery
    \/ Step2cNextR
    \/ Step3
    \/ Loop

Spec == Init /\ [][Next]_vars

\* the run takes its next step whenever it has one: the program is sequential
FairSpec == Init /\ [][Next]_vars /\ WF_vars(Next)

\* the attack against an oracle whose calls may raise
NextFail ==
    \/ Next
    \/ OracleRaise

FailSpec == Init /\ [][NextFail]_vars

(***************************************************************************)
(* Properties.                                                             *)
(***************************************************************************)
\* the plaintext of c, as the key's owner would decrypt it
PlainOf(x) == PowMod(x, d, n)

\* C1: end-to-end recovery: a run on the ciphertext of a conforming plaintext
\* m0 (2B <= m0 <= 3B - 1), with an oracle that is true exactly on ciphertexts
\* of conforming plaintexts, returns exactly m0.
C1_EndToEnd == (pc = "done" /\ Conforming(m0)) => m = m0

\* a run on a conforming plaintext that went through steps 2b or 2c has returned
C1_Witness == pc = "done" /\ Conforming(m0) /\ s0 = 1 /\ m = m0 /\ queries > 20

\* C2: termination: with a correct oracle and a conforming plaintext, every
\* run reaches the terminal state and returns.
C2_Termination == (pc = "step_1" /\ Conforming(m0)) ~> (pc = "done")

\* a run on a conforming plaintext has returned after several rounds of search
C2_Witness == pc = "done" /\ Conforming(m0) /\ r > 0 /\ Len(Mprev) = 1

\* C3: narrowing monotonicity: the integers covered by M' = _step_3(n, B, s, M)
\* are a subset of the integers covered by M.
C3_NarrowingMonotone == (Mprev # <<>>) => (Cover(M) \subseteq Cover(Mprev))

\* a narrowing of a list of several intervals that removed candidates
C3_Witness ==
    /\ pc = "loop"
    /\ Len(Mprev) > 1
    /\ Cover(M) # {}
    /\ Cover(M) # Cover(Mprev)

\* C4: only non-empty intervals are stored: every interval (a, b) held in M
\* satisfies a <= b.
C4_OnlyNonEmptyStored == \A i \in 1..Len(M) : M[i][1] <= M[i][2]

\* C5: disjointness: no integer is covered by two different stored intervals.
C5_Disjoint ==
    \A i, j \in 1..Len(M) :
        i # j => (M[i][1]..M[i][2]) \cap (M[j][1]..M[j][2]) = {}

\* M holds two intervals that both cover integers
C5_Witness ==
    /\ pc = "loop"
    /\ \E i, j \in 1..Len(M) : i # j /\ M[i][1] <= M[i][2] /\ M[j][1] <= M[j][2]

\* C6: non-touching: no two stored intervals (a1, b1), (a2, b2) have b1 + 1 = a2.
C6_NonTouching ==
    \A i, j \in 1..Len(M) : i # j => M[i][2] + 1 # M[j][1]

\* M holds three intervals or more after a narrowing
C6_Witness ==
    /\ pc = "loop"
    /\ Len(M) >= 3
    /\ \E i, j \in 1..Len(M) : i # j /\ M[i][1] <= M[i][2] /\ M[j][1] <= M[j][2]

\* C7: _insert of (a, b), a <= b, into the one-element list [(a_, b_)],
\* a_ <= b_, gives [(min(a, a_), max(b, b_))] when a_ <= b and a <= b_, and
\* [(a_, b_), (a, b)] otherwise.
C7_InsertIntoSingleton ==
    (/\ iCount >= 1
     /\ Len(iPrev) = 1
     /\ iPrev[1][1] <= iPrev[1][2]
     /\ iArg[1] <= iArg[2])
    => iM = IF iPrev[1][1] <= iArg[2] /\ iArg[1] <= iPrev[1][2]
            THEN << <<min(iArg[1], iPrev[1][1]), max(iArg[2], iPrev[1][2])>> >>
            ELSE <<iPrev[1], iArg>>

\* an insertion into a one-element list that merged at a shared end point
C7_Witness ==
    /\ iCount = 2
    /\ Len(iPrev) = 1
    /\ iPrev[1][1] <= iPrev[1][2]
    /\ iArg[1] = iPrev[1][2]
    /\ iArg[2] > iArg[1]
    /\ Len(iM) = 1

\* C8: blind skip: when the oracle accepts c itself, step 1 ends with s0 = 1
\* and c0 = c, having drawn no random value and made exactly one oracle query.
C8_BlindSkip ==
    [][(pc = "step_1" /\ pc' = "step_2a" /\ padding_oracle(c))
          => (s0' = 1 /\ c0' = c /\ draws' = 0 /\ queries' = 1)]_vars

\* step 2a is about to start after a step 1 that did not blind
C8_Witness ==
    /\ pc = "step_2a"
    /\ queries = 1
    /\ padding_oracle(c)
    /\ s0 = 1
    /\ s = ceil(n, 3 * B)

\* C9: repeatability under blinding: whichever s0 in [2, n) a run drew, the m
\* it returns is the plaintext of c, the same for every such run.
C9_Repeatable == (pc = "done" /\ s0 # 1) => m = PlainOf(c)

\* a run has returned after it replaced a first blinding value by a second one
C9_Witness == pc = "done" /\ draws = 2 /\ s0 > 1 /\ m = PlainOf(c)

\* C10: terminal condition and unblinding: a run returns only when M is one
\* interval (a, b) with a = b, and returns m in [0, n) with m * s0 = a (mod n).
C10_TerminalUnblind ==
    (pc = "done") =>
        /\ Len(M) = 1
        /\ M[1][1] = M[1][2]
        /\ 0 <= m /\ m < n
        /\ MulMod(m, s0 % n, n) = M[1][1] % n

\* a blinded run has returned
C10_Witness == pc = "done" /\ s0 > 1 /\ Len(M) = 1 /\ m # M[1][1]

\* C11: oracle failure propagation: when a call of the oracle raises, in
\* whichever step, the run ends at once in an error outcome: the failed query
\* is the last one (no retry, no further query) and no plaintext is returned.
C11_OracleFailurePropagates ==
    /\ [](raised => (pc = "oracle_error" /\ m = -1))
    /\ [][(raised' /\ ~raised) => (pc' = "oracle_error" /\ queries' = queries + 1)]_vars
    /\ [][raised => (queries' = queries /\ pc' = pc /\ m' = m)]_vars

\* the oracle has raised in the middle of a scan of step 2c
C11_Witness == raised /\ pc = "oracle_error" /\ phase = "2c" /\ Len(asked) > 0

\* C12: a non-invertible blind fails explicitly: when the accepted blinding
\* factor s0 shares a factor with n, the run returns no integer, and once M has
\* collapsed to a single point it ends in an error (the modular inverse is
\* never replaced by a wrapped or made-up value).
C12_NonInvertibleBlindFails ==
    /\ []((Gcd(s0, n) > 1) => (pc # "done" /\ m = -1))
    /\ [][(pc = "loop" /\ Len(M) = 1 /\ M[1][1] = M[1][2] /\ Gcd(s0, n) > 1)
            => (pc' = "error" /\ m' = -1)]_vars

\* a run blinded with a multiple of a prime factor of n has collapsed M and failed
C12_Witness ==
    /\ pc = "error"
    /\ Gcd(s0, n) > 1
    /\ Len(M) = 1
    /\ M[1][1] = M[1][2]
    /\ M[1][1] = MulMod(m0, s0, n)

\* C13: phase ordering: step 1, then step 2a (entered once, from step 1 only),
\* then step 3, then the terminal test; from the terminal test the run goes to
\* step 2b exactly when M holds more than one interval and to step 2c exactly
\* when M holds one interval (a, b) with a < b; every search step is followed
\* by step 3 and the terminal test again; step 3 is entered only with an s
\* whose query (c0 * s^e) mod n the oracle has just accepted.
C13_PhaseOrdering ==
    [][ /\ (pc = "step_1") => (pc' \in {"step_1", "step_2a"})
        /\ (pc = "step_2a") => (pc' \in {"step_2a", "step_3"})
        /\ (pc' = "step_2a") => (pc \in {"step_1", "step_2a"})
        /\ (pc = "step_2b") => (pc' \in {"step_2b", "step_3"})
        /\ (pc = "step_2c") => (pc' \in {"step_2c", "step_3"})
        /\ (pc = "step_3") => (pc' = "loop")
        /\ (pc = "loop") =>
              /\ pc' \in {"step_2b", "step_2c", "done", "error"}
              /\ (pc' = "step_2b") <=> (Len(M) > 1)
              /\ (pc' = "step_2c") <=> (Len(M) = 1 /\ M[1][1] < M[1][2])
        /\ (pc' = "step_3") =>
              /\ pc \in {"step_2a", "step_2b", "step_2c"}
              /\ asked' = Append(asked, s')
              /\ padding_oracle(Query(s'))
      ]_vars

\* a run that went through steps 2a, 3, 2b, 3 and the terminal test is about to
\* narrow with the witness of a second step 2b
C13_Witness == pc = "step_3" /\ phase = "2b" /\ Len(Mprev) > 1 /\ Len(M) > 1

\* the interval list L is not terminal: more than one interval, or one
\* interval (a, b) with a < b
NonTerminal(L) == Len(L) > 1 \/ (Len(L) = 1 /\ L[1][1] < L[1][2])

\* C14 as stated: strict shrinking per round: for every round that starts from
\* a non-terminal M, the number of integers covered by M after the search
\* step and step 3 is strictly smaller than the number covered before.
C14_StrictShrink ==
    (pc = "loop" /\ NonTerminal(Mprev))
        => (Cardinality(Cover(M)) < Cardinality(Cover(Mprev)))

\* C14, amended: for every round that starts from a non-terminal M, the number
\* of integers covered by M after the search step and step 3 is never larger
\* than the number covered before, and it is strictly smaller in the round of
\* step 2a; a later round may leave it unchanged.
C14_Shrink ==
    (pc = "loop" /\ NonTerminal(Mprev))
        => /\ Cardinality(Cover(M)) <= Cardinality(Cover(Mprev))
           /\ (phase = "2a") => (Cardinality(Cover(M)) < Cardinality(Cover(Mprev)))

\* a round of step 2b on two non-empty intervals has left both as they were
C14_Witness ==
    /\ pc = "loop"
    /\ phase = "2b"
    /\ Len(Mprev) = 2
    /\ \A i \in 1..2 : Mprev[i][1] <= Mprev[i][2]
    /\ M = Mprev

\* the first multiplier of the linear scan in progress: ceil(n, 3 * B) in step
\* 2a, the previous witness plus one in step 2b
ScanStart == IF phase = "2a" THEN ceil(n, 3 * B) ELSE sPrev + 1

\* C15: the linear scans return the least accepted multiplier: steps 2a and 2b
\* query the multipliers one by one in ascending order from their start value
\* (ceil(n, 3B) in step 2a, the previous witness plus one in step 2b, so the
\* previous witness is not queried again); the multiplier returned is accepted,
\* every multiplier from the start value up to it was rejected and nothing
\* above it was queried.
C15_LinearScanLeast ==
    (phase \in {"2a", "2b"} /\ pc \in {"step_2a", "step_2b", "step_3"})
        => /\ asked = [i \in 1..Len(asked) |-> ScanStart + i - 1]
           /\ (pc # "step_3") => (s = ScanStart + Len(asked))
           /\ (pc = "step_3") =>
                 /\ Len(asked) >= 1
                 /\ s = ScanStart + Len(asked) - 1
                 /\ padding_oracle(Query(s))
                 /\ \A x \in ScanStart..(s - 1) : ~padding_oracle(Query(x))

\* step 2b has returned a witness after it scanned past rejected multipliers
C15_Witness ==
    /\ pc = "step_3"
    /\ phase = "2b"
    /\ Len(asked) > 3
    /\ asked[1] = sPrev + 1
    /\ s = asked[Len(asked)]

\* the integers lo, lo + 1, ..., hi in ascending order (none when lo > hi)
RangeSeq(lo, hi) == [i \in 1..(IF hi >= lo THEN hi - lo + 1 ELSE 0) |-> lo + i - 1]

\* the candidates of the ranges of r = rFrom, ..., rTo of step 2c on (a, b), in
\* the order the claim gives: ceil_div(2B + r n, b) .. floor_div(3B + r n, a)
RECURSIVE RangesOf(_, _, _, _)
RangesOf(a, b, rFrom, rTo) ==
    IF rFrom > rTo
    THEN <<>>
    ELSE RangeSeq(ceil(2 * B + rFrom * n, b), floor(3 * B + rFrom * n, a))
             \o RangesOf(a, b, rFrom + 1, rTo)

\* C16: the scan of step 2c on M = {(a, b)} with the previous witness s starts
\* at r = ceil_div(2 (b s - 2B), n) and, for r, r + 1, ..., queries every s'
\* from ceil_div(2B + r n, b) to floor_div(3B + r n, a) in ascending order (an
\* empty range issues no query), going to r + 1 only when the whole range of r
\* was rejected; the s' returned is accepted, lies in the range of its r, and
\* every candidate queried before it was rejected.
C16_SearchOneScan ==
    (phase = "2c" /\ pc \in {"step_2c", "step_3"})
        => LET a == M[1][1]
               b == M[1][2]
               r0 == ceil(2 * (b * sPrev - 2 * B), n)
               lo == ceil(2 * B + r * n, b)
               hi == floor(3 * B + r * n, a)
           IN  /\ r >= r0
               /\ (pc = "step_2c") =>
                     asked = RangesOf(a, b, r0, r - 1) \o RangeSeq(lo, it - 1)
               /\ (pc = "step_3") =>
                     /\ asked = RangesOf(a, b, r0, r - 1) \o RangeSeq(lo, s)
                     /\ lo <= s /\ s <= hi
                     /\ padding_oracle(Query(s))
                     /\ \A i \in 1..(Len(asked) - 1) : ~padding_oracle(Query(asked[i]))

\* step 2c has returned a witness after it moved on from its first r
C16_Witness ==
    /\ pc = "step_3"
    /\ phase = "2c"
    /\ r > ceil(2 * (M[1][2] * sPrev - 2 * B), n)
    /\ Len(asked) > 1
    /\ s = asked[Len(asked)]

\* C17: single merge per insertion: _insert(M, a, b) changes at most one
\* element of M: it merges (a, b) into the first stored interval (a_, b_), in
\* list order, with a_ <= b and a <= b_, and leaves every other stored interval
\* as it was, a later one that (a, b) overlaps too; the length stays the same
\* on a merge and grows by one (the new pair appended) otherwise.
C17_SingleMerge ==
    (iCount >= 1) =>
        LET a == iArg[1]
            b == iArg[2]
            hits == {i \in 1..Len(iPrev) : iPrev[i][1] <= b /\ a <= iPrev[i][2]}
        IN  IF hits = {}
            THEN /\ Len(iM) = Len(iPrev) + 1
                 /\ iM[Len(iM)] = <<a, b>>
                 /\ \A j \in 1..Len(iPrev) : iM[j] = iPrev[j]
            ELSE /\ Len(iM) = Len(iPrev)
                 /\ \E i \in hits :
                       /\ \A k \in hits : i <= k
                       /\ iM[i] = <<min(a, iPrev[i][1]), max(b, iPrev[i][2])>>
                       /\ \A j \in 1..Len(iPrev) : (j # i) => (iM[j] = iPrev[j])

\* an insertion that overlapped two stored intervals: the first has grown, the
\* second is as it was
C17_Witness ==
    /\ iCount = 3
    /\ Len(iPrev) = 2
    /\ Len(iM) = 2
    /\ \A i \in 1..2 : iPrev[i][1] <= iArg[2] /\ iArg[1] <= iPrev[i][2]
    /\ iM[1] # iPrev[1]
    /\ iM[2] = iPrev[2]

\* the blinded plaintext (m * s0) mod n that the run searches for
BlindedPlain == MulMod(m0, s0 % n, n)

\* C18: soundness: with a correct oracle, in every state after step 1 the
\* blinded plaintext (m * s0) mod n lies in some stored interval of M; so M is
\* not empty when the terminal test reads M[0], and an M collapsed to the one
\* point (a, a) has a = (m * s0) mod n.
C18_Soundness ==
    (pc \in {"step_2a", "step_2b", "step_2c", "step_3", "loop", "done", "error"})
        => /\ \E i \in 1..Len(M) : M[i][1] <= BlindedPlain /\ BlindedPlain <= M[i][2]
           /\ (pc = "loop") => (Len(M) >= 1)
           /\ (Len(M) = 1 /\ M[1][1] = M[1][2]) => (M[1][1] = BlindedPlain)

\* a blinded run has narrowed two intervals down to the blinded plaintext
C18_Witness ==
    /\ pc = "loop"
    /\ s0 > 1
    /\ Len(Mprev) > 1
    /\ M = << <<BlindedPlain, BlindedPlain>> >>

\* C19: witness growth: the witness s grows with every search step: step 2b
\* returns a witness greater than the previous one, step 2c returns from the
\* previous witness s an s' >= 2 s - 1 > s; no multiplier at or below the
\* previous witness is queried, so none is accepted twice in a run.
C19_WitnessGrowth ==
    (phase \in {"2b", "2c"} /\ pc \in {"step_2b", "step_2c", "step_3"})
        => /\ \A i \in 1..Len(asked) : asked[i] > sPrev
           /\ (phase = "2c") => (\A i \in 1..Len(asked) : asked[i] >= 2 * sPrev - 1)
           /\ (pc = "step_3" /\ phase = "2b") => (s > sPrev)
           /\ (pc = "step_3" /\ phase = "2c") => (s >= 2 * sPrev - 1 /\ 2 * sPrev - 1 > sPrev)

\* step 2c has returned a witness at least twice the previous one, less one
C19_Witness ==
    /\ pc = "step_3"
    /\ phase = "2c"
    /\ sPrev > 1
    /\ s >= 2 * sPrev - 1
    /\ s = asked[Len(asked)]

====
